---- MODULE Spec2Model ----
(***************************************************************************)
(* Browser-side SSO helper: token acquisition from the post-login redirect, *)
(* tab-scoped token persistence, expiry checking and logout.  The           *)
(* repository carries four builds of the authentication module; the        *)
(* variable `variant` fixes which build is loaded in the page.              *)
(***************************************************************************)
EXTENDS Integers, Sequences, FiniteSets, TLC

\* ---------------------------------------------------------------- bounds
\* at most this many parameters are present in a page URL
MaxUrlParams == 2
\* the clock runs from 0 to MaxSeconds seconds
MaxSeconds == 2
\* at most this many code exchanges are in flight at once
MaxInflight == 2

\* ------------------------------------------------------------- constants
\* decoded.exp * 1000 : seconds to milliseconds
MsPerSec == 1000

\* null / undefined / absent parameter
None == "none"

\* the four builds of the authentication module
Backend == "src/auth.js"
Implicit == "src/src/auth.js"
Sample == "src/unnamed/part_000"
TestTok == "src/unnamed/part_001"
Variants == {Backend, Implicit, Sample, TestTok}

\* sessionStorage key of the token
TOKEN_KEY(v) == IF v \in {Backend, Implicit} THEN "auth_token" ELSE "token"
StorageKeys == {"auth_token", "token"}

\* ---------------------------------------------------------------- tokens
Tokens == {"tAlice", "tBob", "tZero", "tBad"}
TokOpt == Tokens \cup {None}
\* the tokens used as manual test tokens (test_token parameter, test page input)
TestTokens == {"tBob", "tBad"}

\* the claims of a decodable token; ok = FALSE stands for the decoder throwing
NoClaims == [ok |-> FALSE, hasExp |-> FALSE, exp |-> 0, name |-> None, sub |-> None]
jwtDecode(t) ==
  CASE t = "tAlice" -> [ok |-> TRUE, hasExp |-> TRUE, exp |-> 1, name |-> "alice", sub |-> "u1"]
    [] t = "tBob"   -> [ok |-> TRUE, hasExp |-> FALSE, exp |-> 0, name |-> "bob", sub |-> "u2"]
    [] t = "tZero"  -> [ok |-> TRUE, hasExp |-> TRUE, exp |-> 0, name |-> "zed", sub |-> "u3"]
    [] OTHER        -> NoClaims

\* JavaScript truthiness of a string-or-null value
Truthy(s) == s # None /\ s # ""
\* a || b on string-or-null values
Or2(a, b) == IF Truthy(a) THEN a ELSE b
Or3(a, b, c) == Or2(Or2(a, b), c)

\* ------------------------------------------------------------------ URLs
\* window.location: the fragment and query parameters (the path is fixed)
UrlFields == {"h_access_token", "h_id_token", "q_access_token", "q_id_token",
              "q_token", "q_test_token", "q_code", "q_error"}
UrlValues(f) ==
  CASE f = "q_code"  -> {None, "c1"}
    [] f = "q_error" -> {None, "access_denied"}
    [] f = "q_test_token" -> TestTokens \cup {None}
    [] OTHER         -> TokOpt
CleanUrl == [f \in UrlFields |-> None]

RECURSIVE UrlsWith(_)
\* the URLs with at most n parameters present
UrlsWith(n) ==
  IF n = 0 THEN {CleanUrl}
  ELSE LET S == UrlsWith(n - 1)
       IN S \cup UNION {{[u EXCEPT ![f] = x] : u \in S, x \in UrlValues(f)} :
                         f \in UrlFields}
Urls == UrlsWith(MaxUrlParams)

\* window.location.hash is non-empty
HasHash(u) == u.h_access_token # None \/ u.h_id_token # None


\* ------------------------------------------------------ token extraction
\* login (sample builds): fragment access_token || id_token, then query
\* access_token || id_token || token
LoginUrlToken(u) ==
  LET fromHash == IF HasHash(u) THEN Or2(u.h_access_token, u.h_id_token) ELSE None
  IN IF Truthy(fromHash) THEN fromHash
     ELSE Or3(u.q_access_token, u.q_id_token, u.q_token)

\* getToken (src/src/auth.js), the part after the sessionStorage lookup:
\* fragment access_token || id_token, then query token || id_token || access_token
GetTokenUrlToken(u) ==
  LET fromHash == IF HasHash(u) THEN Or2(u.h_access_token, u.h_id_token) ELSE None
  IN IF Truthy(fromHash) THEN fromHash
     ELSE Or3(u.q_token, u.q_id_token, u.q_access_token)

\* mutant: a payload without exp counts as expired
IsExpired_NoExpExpires(c, t) == ~c.hasExp \/ (c.exp # 0 /\ c.exp * MsPerSec < t)

\* mutant: the comparison of the expiry check turned round
IsExpired_Flipped(c, t) == c.hasExp /\ c.exp # 0 /\ c.exp * MsPerSec > t

\* decoded.exp && decoded.exp * 1000 < Date.now()
IsExpired(c, t) == c.hasExp /\ c.exp # 0 /\ c.exp * MsPerSec < t

\* ------------------------------------------------- backend code exchange
NoData == [token |-> None, access_token |-> None, jwt |-> None]
\* the values of the response fields: absent, empty, or a token
FieldValues(f) ==
  CASE f = "token"        -> {None, "", "tAlice", "tBad"}
    [] f = "access_token" -> {None, "", "tBob"}
    [] OTHER              -> {None, "tZero"}
\* what the fetch of /v1/auth/callback/?code= can come back with
Responses ==
  {[status |-> "neterr", data |-> NoData], [status |-> "notok", data |-> NoData]}
  \cup {[status |-> "ok", data |-> [token |-> a, access_token |-> b, jwt |-> c]] :
          a \in FieldValues("token"), b \in FieldValues("access_token"),
          c \in FieldValues("jwt")}
\* mutant: the response fields are tried in the opposite order
DataToken_JwtFirst(d) == Or3(d.jwt, d.access_token, d.token)

\* data.token || data.access_token || data.jwt
DataToken(d) == Or3(d.token, d.access_token, d.jwt)

\* ------------------------------------------------------- call outcomes
R0 == [kind |-> "void", b |-> FALSE, tok |-> None, claims |-> NoClaims,
       data |-> NoData, code |-> None]
RBool(x) == [R0 EXCEPT !.kind = "bool", !.b = x]
RNull == [R0 EXCEPT !.kind = "null"]
REmpty == [R0 EXCEPT !.kind = "empty"]
RToken(t) == [R0 EXCEPT !.kind = "token", !.tok = t]
RClaims(t, c) == [R0 EXCEPT !.kind = "claims", !.tok = t, !.claims = c]
RData(d) == [R0 EXCEPT !.kind = "data", !.data = d, !.tok = DataToken(d)]
\* mutant: the error thrown does not say which code failed
RThrow_NoCode(what, c) == [R0 EXCEPT !.kind = what]
RThrow(what, c) == [R0 EXCEPT !.kind = what, !.code = c]
RCodeInfo(c) == [R0 EXCEPT !.kind = "codeinfo", !.code = c]
RPending(c) == [R0 EXCEPT !.kind = "pending", !.code = c]

\* --------------------------------------- role predicates of part_000
\* A string is a sequence of atoms: `===` is equality of sequences and
\* String.indexOf finds a contiguous run of atoms.
MaxHostParts == 2
MaxMemberOf == 2

LOCALHOST_ACTION == TRUE

\* the outcome of a role predicate: the boolean returned, or the TypeError
\* thrown; NotCalled while the predicate has not run
Returns(x) == [kind |-> "bool", b |-> x]
TypeError == [kind |-> "TypeError", b |-> FALSE]
NotCalled == [kind |-> "void", b |-> FALSE]

Str(a) == <<a>>
RECURSIVE SeqsUpTo(_, _)
\* the sequences over S of length at most n
SeqsUpTo(S, n) ==
  IF n = 0 THEN {<<>>}
  ELSE LET shorter == SeqsUpTo(S, n - 1)
       IN  shorter \cup {Append(s, x) : s \in {t \in shorter : Len(t) = n - 1}, x \in S}

HostAtoms == {"localhost", "global", "amea", "meu", "x"}
Hostnames == SeqsUpTo(HostAtoms, MaxHostParts)

GroupAtoms ==
  {"mdz-diat-admin-glbl-grp", "mdz-diat-admin-amer-grp", "mdz-diat-admin-amea-grp",
   "mdz-diat-admin-meu-grp",
   "mdz-diat-dev-glbl-grp", "mdz-diat-dev-amer-grp", "mdz-diat-dev-amea-grp",
   "mdz-diat-dev-meu-grp",
   "mdz-diat-prj-glbl-grp", "mdz-diat-prj-amer-grp", "mdz-diat-prj-amea-grp",
   "mdz-diat-prj-meu-grp",
   "x"}

\* the memberOf claim of the decoded token: absent, an array of strings, a
\* single string, or a truthy value of another type (it has no indexOf)
MAbsent == [kind |-> "absent", items |-> <<>>, str |-> <<>>]
MOther == [kind |-> "other", items |-> <<>>, str |-> <<>>]
MList(l) == [kind |-> "list", items |-> l, str |-> <<>>]
MString(s) == [kind |-> "string", items |-> <<>>, str |-> s]
MemberOfs ==
  {MAbsent, MOther}
  \cup {MList(l) : l \in SeqsUpTo({Str(a) : a \in GroupAtoms}, MaxMemberOf)}
  \cup {MString(s) : s \in SeqsUpTo(GroupAtoms, MaxMemberOf)}

\* memberOf || []
OrEmptyList(m) ==
  IF m.kind = "absent" \/ (m.kind = "string" /\ m.str = <<>>) THEN MList(<<>>) ELSE m

Least(S) == CHOOSE i \in S : \A j \in S : i <= j
\* String.prototype.indexOf
StringIndexOf(s, t) ==
  LET hits == {i \in 0..(Len(s) - Len(t)) : SubSeq(s, i + 1, i + Len(t)) = t}
  IN  IF hits = {} THEN -1 ELSE Least(hits)
\* Array.prototype.indexOf
ArrayIndexOf(a, x) ==
  LET hits == {i \in 0..(Len(a) - 1) : a[i + 1] = x}
  IN  IF hits = {} THEN -1 ELSE Least(hits)
\* memberOf.indexOf(name) on an array or a string
indexOf(m, name) ==
  IF m.kind = "list" THEN ArrayIndexOf(m.items, name) ELSE StringIndexOf(m.str, name)

\* memberOf.indexOf(a) > -1 || memberOf.indexOf(b) > -1 ...: a TypeError
\* when memberOf has no indexOf
InGroups(m, names) ==
  IF m.kind = "other" THEN TypeError
  ELSE Returns(\E i \in 1..Len(names) : indexOf(m, Str(names[i])) > -1)

isAdmin_UnknownHostGlobal(memberOf, hostname) ==
  IF hostname = Str("localhost") THEN Returns(LOCALHOST_ACTION)
  ELSE LET m == OrEmptyList(memberOf)
       IN  IF StringIndexOf(hostname, Str("amea")) > -1
             THEN InGroups(m, <<"mdz-diat-admin-amea-grp">>)
           ELSE IF StringIndexOf(hostname, Str("meu")) > -1
             THEN InGroups(m, <<"mdz-diat-admin-meu-grp">>)
           ELSE InGroups(m, <<"mdz-diat-admin-glbl-grp", "mdz-diat-admin-amer-grp">>)

isAdmin_NoLocalhost(memberOf, hostname) ==
  LET m == OrEmptyList(memberOf)
  IN  IF StringIndexOf(hostname, Str("global")) > -1
        THEN InGroups(m, <<"mdz-diat-admin-glbl-grp", "mdz-diat-admin-amer-grp">>)
      ELSE IF StringIndexOf(hostname, Str("amea")) > -1
        THEN InGroups(m, <<"mdz-diat-admin-amea-grp">>)
      ELSE IF StringIndexOf(hostname, Str("meu")) > -1
        THEN InGroups(m, <<"mdz-diat-admin-meu-grp">>)
      ELSE Returns(FALSE)

isAdmin_MeuFirst(memberOf, hostname) ==
  IF hostname = Str("localhost") THEN Returns(LOCALHOST_ACTION)
  ELSE LET m == OrEmptyList(memberOf)
       IN  IF StringIndexOf(hostname, Str("meu")) > -1
             THEN InGroups(m, <<"mdz-diat-admin-meu-grp">>)
           ELSE IF StringIndexOf(hostname, Str("amea")) > -1
             THEN InGroups(m, <<"mdz-diat-admin-amea-grp">>)
           ELSE IF StringIndexOf(hostname, Str("global")) > -1
             THEN InGroups(m, <<"mdz-diat-admin-glbl-grp", "mdz-diat-admin-amer-grp">>)
           ELSE Returns(FALSE)

isAdmin(memberOf, hostname) ==
  IF hostname = Str("localhost") THEN Returns(LOCALHOST_ACTION)
  ELSE LET m == OrEmptyList(memberOf)
       IN  IF StringIndexOf(hostname, Str("global")) > -1
             THEN InGroups(m, <<"mdz-diat-admin-glbl-grp", "mdz-diat-admin-amer-grp">>)
           ELSE IF StringIndexOf(hostname, Str("amea")) > -1
             THEN InGroups(m, <<"mdz-diat-admin-amea-grp">>)
           ELSE IF StringIndexOf(hostname, Str("meu")) > -1
             THEN InGroups(m, <<"mdz-diat-admin-meu-grp">>)
           ELSE Returns(FALSE)

isDeveloper_NoAdminShortcut(memberOf, hostname) ==
  IF hostname = Str("localhost") THEN Returns(LOCALHOST_ACTION)
  ELSE LET m == OrEmptyList(memberOf)
       IN  IF StringIndexOf(hostname, Str("global")) > -1
             THEN InGroups(m, <<"mdz-diat-dev-glbl-grp", "mdz-diat-dev-amer-grp">>)
           ELSE IF StringIndexOf(hostname, Str("amea")) > -1
             THEN InGroups(m, <<"mdz-diat-dev-amea-grp">>)
           ELSE IF StringIndexOf(hostname, Str("meu")) > -1
             THEN InGroups(m, <<"mdz-diat-dev-meu-grp">>)
           ELSE Returns(FALSE)

isDeveloper(memberOf, hostname) ==
  LET isAnAdmin == isAdmin(memberOf, hostname)
  IN  IF isAnAdmin.kind # "bool" \/ isAnAdmin.b THEN isAnAdmin
      ELSE IF hostname = Str("localhost") THEN Returns(LOCALHOST_ACTION)
      ELSE LET m == OrEmptyList(memberOf)
           IN  IF StringIndexOf(hostname, Str("global")) > -1
                 THEN InGroups(m, <<"mdz-diat-dev-glbl-grp", "mdz-diat-dev-amer-grp">>)
               ELSE IF StringIndexOf(hostname, Str("amea")) > -1
                 THEN InGroups(m, <<"mdz-diat-dev-amea-grp">>)
               ELSE IF StringIndexOf(hostname, Str("meu")) > -1
                 THEN InGroups(m, <<"mdz-diat-dev-meu-grp">>)
               ELSE Returns(FALSE)

isProjectMember(memberOf, hostname) ==
  LET isADeveloper == isDeveloper(memberOf, hostname)
  IN  IF isADeveloper.kind # "bool" \/ isADeveloper.b THEN isADeveloper
      ELSE IF hostname = Str("localhost") THEN Returns(LOCALHOST_ACTION)
      ELSE LET m == OrEmptyList(memberOf)
           IN  IF StringIndexOf(hostname, Str("global")) > -1
                 THEN InGroups(m, <<"mdz-diat-prj-glbl-grp", "mdz-diat-prj-amer-grp">>)
               ELSE IF StringIndexOf(hostname, Str("amea")) > -1
                 THEN InGroups(m, <<"mdz-diat-prj-amea-grp">>)
               ELSE IF StringIndexOf(hostname, Str("meu")) > -1
                 THEN InGroups(m, <<"mdz-diat-prj-meu-grp">>)
               ELSE Returns(FALSE)

\* the role checks of the page: the inputs and the result of each predicate
\* (NotCalled before the render)
RoleChecks(h, m, a, d, p) ==
  [hostname |-> h, memberOf |-> m, isAdmin |-> a, isDeveloper |-> d,
   isProjectMember |-> p]
NoRoles == RoleChecks(<<>>, MAbsent, NotCalled, NotCalled, NotCalled)

\* ------------------------------------------- URL builder (src/src/utils.js)
\* the two builds of getSSOUrl; either may be the ./utils.js a build of the
\* authentication module imports
UtilsParams == "src/src/utils.js:16"
UtilsConcat == "src/src/utils.js:36"
Builders == {UtilsParams, UtilsConcat}

MaxPathParts == 2

SSO_REDIRECT_URL == <<"http://", "localhost", ":5173">>
SSO_CONFIG_redirectUrl == <<"http://", "localhost", ":3000">>
SSO_AUTH_URL == "https://your-ping-domain.com/as/authorization.oauth2"
SSO_CLIENT_ID == "your-client-id-here"
authorizationEndpoint == "https://pf.ping.aws.mdlz.com/as/authorization.oauth2"
clientId == "diatdevoauth"
responseType == "code"
scope == <<"openid", " ", "profile", " ", "email">>

\* redirect URIs: scheme, hostname, path
UriAtoms == {"app", "global", "predev"}
UriHosts == SeqsUpTo(UriAtoms, MaxHostParts) \ {<<>>}
UriPaths == {p \in SeqsUpTo(UriAtoms \cup {"/"}, MaxPathParts) : p = <<>> \/ p[1] = "/"}
Uri(h, p) == <<"https://">> \o h \o p
RedirectUris == {Uri(h, p) : h \in UriHosts, p \in UriPaths}
\* window.location.origin + window.location.pathname of the application page
CurrentUrls == {Uri(h, <<"/">>) : h \in UriHosts}

\* application/x-www-form-urlencoded serialisation of one piece of a value
\* (URLSearchParams.toString)
EncodeAtom(a) ==
  CASE a = "https://" -> "https%3A%2F%2F"
    [] a = "http://"  -> "http%3A%2F%2F"
    [] a = "/"        -> "%2F"
    [] a = ":5173"    -> "%3A5173"
    [] a = ":3000"    -> "%3A3000"
    [] a = " "        -> "+"
    [] OTHER          -> a
Encode(s) == [i \in 1..Len(s) |-> EncodeAtom(s[i])]

\* String.prototype.includes
Includes(s, t) == StringIndexOf(s, t) > -1

\* getSSOUrl, lines 16-28: URLSearchParams of the four parameters
getSSOUrlParams(redirectUri) ==
  LET finalRedirectUri == IF redirectUri # <<>> THEN redirectUri ELSE SSO_REDIRECT_URL
  IN  <<SSO_AUTH_URL, "?">>
        \o <<"response_type", "=">> \o Encode(<<"code">>)
        \o <<"&", "client_id", "=">> \o Encode(<<SSO_CLIENT_ID>>)
        \o <<"&", "redirect_uri", "=">> \o Encode(finalRedirectUri)
        \o <<"&", "scope", "=">> \o Encode(scope)

\* getSSOUrl, lines 36-44: the template string
getSSOUrlConcat(redirectUri) ==
  LET slash == IF StringIndexOf(redirectUri, Str("global")) > -1
                    /\ ~Includes(redirectUri, Str("predev"))
               THEN <<"/">> ELSE <<>>
  IN  <<authorizationEndpoint, "?">>
        \o <<"response_type", "=", responseType>>
        \o <<"&", "client_id", "=", clientId>>
        \o <<"&", "redirect_uri", "=">> \o redirectUri \o slash
        \o <<"&", "scope", "=">> \o scope

getSSOUrl(builder, redirectUri) ==
  IF builder = UtilsParams THEN getSSOUrlParams(redirectUri)
  ELSE getSSOUrlConcat(redirectUri)

\* initiateLogin: redirectUri || currentUrl, and in part_001
\* redirectUri || SSO_CONFIG.redirectUrl || currentUrl
finalRedirectUri(v, redirectUri, currentUrl) ==
  IF redirectUri # <<>> THEN redirectUri
  ELSE IF v = TestTok /\ SSO_CONFIG_redirectUrl # <<>> THEN SSO_CONFIG_redirectUrl
  ELSE currentUrl

\* a call of initiateLogin: the ./utils.js build, the argument (<<>> when it
\* is not given or empty), the page URL, the URI chosen and the URL
\* assigned to window.location.href
LoginCall(b, r, c, f, h) ==
  [builder |-> b, redirectUri |-> r, currentUrl |-> c, finalRedirectUri |-> f,
   href |-> h]
NoLogin == LoginCall(None, <<>>, <<>>, <<>>, <<>>)

\* ----------------------------------------------------------------- state
VARIABLES
  variant,         \* the build of the authentication module loaded in the page
  page,            \* "app", or where window.location.href was sent
  location,        \* window.location of the application page
  sessionStorage,  \* tab-scoped storage
  localStorage,    \* durable storage, the value under testTokenKey
  now,             \* Date.now()
  inflight,        \* codes of the exchanges awaiting their response
  last,            \* the last call: operation, URL it saw, outcome, URL effect
                   \* (prev: for isAuthenticated, the operation called just before)
  roles,           \* the role checks of the page (part_000)
  sso              \* the last initiateLogin call: its inputs and the URL navigated to
vars == <<variant, page, location, sessionStorage, localStorage, now, inflight, last,
         roles, sso>>

Call(op, prev, pre, had, tok, res, nav) ==
  [op |-> op, prev |-> prev, pre |-> pre, had |-> had, tok |-> tok, res |-> res,
   nav |-> nav]
Loaded == Call("load", "", CleanUrl, None, None, R0, "none")

\* sessionStorage.getItem(TOKEN_KEY)
Stored == sessionStorage[TOKEN_KEY(variant)]
\* mutant: a token already stored is kept
setItem_KeepFirst(store, k, t) == IF store[k] # None THEN store ELSE [store EXCEPT ![k] = t]
\* mutant: an empty store stays empty
setItem_IfPresent(store, k, t) == IF store[k] = None THEN store ELSE [store EXCEPT ![k] = t]
setItem(store, k, t) == [store EXCEPT ![k] = t]
removeItem(store, k) == [store EXCEPT ![k] = None]

Init ==
  /\ variant \in Variants
  /\ page = "app"
  /\ location \in Urls
  /\ sessionStorage = [k \in StorageKeys |-> None]
  /\ localStorage = None
  /\ now = 0
  /\ inflight = <<>>
  /\ last = Loaded
  /\ roles = NoRoles
  /\ sso = NoLogin

\* ------------------------------------------------ synchronous operations
\* getToken(): the value returned
GetTokenValue(v, store, u) ==
  IF v = Implicit /\ ~Truthy(store[TOKEN_KEY(v)])
  THEN GetTokenUrlToken(u)
  ELSE store[TOKEN_KEY(v)]
\* getToken(): the token it writes to sessionStorage (src/src/auth.js saves a
\* token found in the URL), None when it writes nothing
GetTokenSaved(v, store, u) ==
  IF v = Implicit /\ ~Truthy(store[TOKEN_KEY(v)]) /\ Truthy(GetTokenUrlToken(u))
  THEN GetTokenUrlToken(u)
  ELSE None
\* getToken(): sessionStorage afterwards
GetTokenStore(v, store, u) ==
  IF GetTokenSaved(v, store, u) # None
  THEN setItem(store, TOKEN_KEY(v), GetTokenSaved(v, store, u))
  ELSE store

\* isAuthenticated(): the value returned
IsAuthValue(v, store, u, t) ==
  LET token == GetTokenValue(v, store, u)
  IN /\ Truthy(token)
     /\ jwtDecode(token).ok
     /\ ~IsExpired(jwtDecode(token), t)
\* mutant: the catch branch returns false without calling logout()
IsAuthStore_KeepBad(v, store, u, t) ==
  LET token == GetTokenValue(v, store, u)
      s1 == GetTokenStore(v, store, u)
  IN IF Truthy(token) /\ jwtDecode(token).ok /\ IsExpired(jwtDecode(token), t)
     THEN removeItem(s1, TOKEN_KEY(v))
     ELSE s1

\* isAuthenticated(): sessionStorage afterwards (logout() on a bad or expired token)
IsAuthStore(v, store, u, t) ==
  LET token == GetTokenValue(v, store, u)
      s1 == GetTokenStore(v, store, u)
  IN IF Truthy(token) /\ ~IsAuthValue(v, store, u, t)
     THEN removeItem(s1, TOKEN_KEY(v))
     ELSE s1

\* getUserInfo(): the value returned
UserInfo(v, store, u) ==
  LET token == IF v \in {Backend, Implicit} THEN GetTokenValue(v, store, u)
               ELSE store[TOKEN_KEY(v)]
      c == jwtDecode(token)
  IN CASE v = Backend ->
            IF ~Truthy(token) \/ ~c.ok THEN RNull
            ELSE RClaims(token, [c EXCEPT !.name = Or2(c.name, c.sub)])
       [] v = Implicit ->
            IF ~Truthy(token) \/ ~c.ok THEN RNull ELSE RClaims(token, c)
       [] OTHER ->
            IF ~Truthy(token) \/ ~c.ok THEN REmpty
            ELSE RClaims(token, [c EXCEPT !.sub = None])

\* the previous call as isAuthenticated sees it: one that stored a token, a
\* logout, or anything else
PrevOf(l) ==
  IF Truthy(l.tok) THEN "save" ELSE IF l.op = "logout" THEN "logout" ELSE "other"

Tick ==
  /\ now + MsPerSec <= MaxSeconds * MsPerSec
  /\ now' = now + MsPerSec
  /\ UNCHANGED <<variant, roles, sso, page, location, sessionStorage, localStorage, inflight, last>>

\* window.location.href = ssoUrl : the page is left, pending promises die with it
InitiateLogin ==
  /\ page = "app"
  /\ page' = "idp_login"
  /\ location' = CleanUrl
  /\ inflight' = <<>>
  /\ last' = Call("initiateLogin", "", CleanUrl, None, None, R0, "assign")
  /\ UNCHANGED <<variant, roles, sso, sessionStorage, localStorage, now>>

\* the identity provider (or the user) sends the tab back to the application
Return ==
  /\ page # "app"
  /\ page' = "app"
  /\ location' \in Urls
  /\ last' = Loaded
  /\ UNCHANGED <<variant, roles, sso, sessionStorage, localStorage, now, inflight>>

\* logout(redirectToSSO); the sample builds take no argument
Logout(redirectToSSO) ==
  /\ page = "app"
  /\ sessionStorage' = removeItem(sessionStorage, TOKEN_KEY(variant))
  /\ IF redirectToSSO /\ variant \in {Backend, Implicit}
     THEN /\ page' = "idp_logout"
          /\ location' = CleanUrl
          /\ inflight' = <<>>
          /\ last' = Call("logout", "", CleanUrl, None, None, R0, "assign")
     ELSE /\ last' = Call("logout", "", location, Stored, None, R0, "none")
          /\ UNCHANGED <<page, location, inflight>>
  /\ UNCHANGED <<variant, roles, sso, localStorage, now>>

GetToken ==
  /\ page = "app"
  /\ sessionStorage' = GetTokenStore(variant, sessionStorage, location)
  /\ last' = Call("getToken", "", location, Stored,
                  GetTokenSaved(variant, sessionStorage, location),
                  LET t == GetTokenValue(variant, sessionStorage, location)
                  IN IF t = None THEN RNull ELSE RToken(t), "none")
  /\ UNCHANGED <<variant, roles, sso, page, location, localStorage, now, inflight>>

IsAuthenticated ==
  /\ page = "app"
  /\ sessionStorage' = IsAuthStore(variant, sessionStorage, location, now)
  /\ last' = Call("isAuthenticated", PrevOf(last), location, Stored, None,
                  RBool(IsAuthValue(variant, sessionStorage, location, now)), "none")
  /\ UNCHANGED <<variant, roles, sso, page, location, localStorage, now, inflight>>

GetUserInfo ==
  /\ page = "app"
  /\ sessionStorage' = IF variant \in {Backend, Implicit}
                       THEN GetTokenStore(variant, sessionStorage, location)
                       ELSE sessionStorage
  /\ last' = Call("getUserInfo", "", location, Stored,
                  IF variant \in {Backend, Implicit}
                  THEN GetTokenSaved(variant, sessionStorage, location) ELSE None,
                  UserInfo(variant, sessionStorage, location), "none")
  /\ UNCHANGED <<variant, roles, sso, page, location, localStorage, now, inflight>>

\* ------------------------------------------------------ handleSSOCallback
\* mutant: the error parameter is looked at only when the URL has no token or code
SSOError_AfterToken(u) ==
  IF Truthy(LoginUrlToken(u)) \/ Truthy(u.q_code) THEN None ELSE u.q_error

\* urlParams.get('error'): the error the callback throws on (None: none)
SSOError(u) == u.q_error

\* the token the callback gets hold of without a network call (None: none)
CallbackToken(v, store, u, ls) ==
  CASE v = Backend  -> None
    [] v = Implicit -> GetTokenValue(v, store, u)
    [] v = Sample   -> LoginUrlToken(u)
    [] OTHER        ->
         IF Truthy(LoginUrlToken(u)) THEN LoginUrlToken(u)
         ELSE IF Truthy(u.q_code) THEN Or2(ls, u.q_test_token)
         ELSE None

\* login (src/unnamed/part_001) remembers a test token taken from the URL
CallbackLocalStorage(v, u, ls) ==
  IF /\ v = TestTok
     /\ ~Truthy(LoginUrlToken(u))
     /\ Truthy(u.q_code)
     /\ ~Truthy(ls)
     /\ Truthy(u.q_test_token)
  THEN u.q_test_token
  ELSE ls

\* what the callback returns when it found no token and no error
CallbackNoToken(v, u) ==
  IF v = TestTok /\ Truthy(u.q_code) THEN RCodeInfo(u.q_code) ELSE RNull

\* mutant: the URL is replaced by itself, parameters and all
replaceState_Keep(u) == u

\* window.history.replaceState({}, document.title, window.location.pathname)
replaceState(u) == CleanUrl

HandleSSOCallback ==
  /\ page = "app"
  /\ LET tok == CallbackToken(variant, sessionStorage, location, localStorage) IN
     IF Truthy(SSOError(location))
     THEN /\ last' = Call("handleSSOCallback", "", location, Stored, None,
                          RThrow("throw_sso", SSOError(location)), "none")
          /\ UNCHANGED <<location, sessionStorage, localStorage, inflight>>
     ELSE IF variant = Backend
     THEN IF Truthy(location.q_code)
          THEN /\ Len(inflight) < MaxInflight
               /\ inflight' = Append(inflight, location.q_code)
               /\ last' = Call("handleSSOCallback", "", location, Stored, None,
                               RPending(location.q_code), "none")
               /\ UNCHANGED <<location, sessionStorage, localStorage>>
          ELSE /\ last' = Call("handleSSOCallback", "", location, Stored, None,
                               RNull, "none")
               /\ UNCHANGED <<location, sessionStorage, localStorage, inflight>>
     ELSE IF Truthy(tok)
     THEN /\ sessionStorage' = setItem(sessionStorage, TOKEN_KEY(variant), tok)
          /\ localStorage' = CallbackLocalStorage(variant, location, localStorage)
          /\ location' = replaceState(location)
          /\ last' = Call("handleSSOCallback", "", location, Stored, tok,
                          UserInfo(variant, sessionStorage', location'), "replaceState")
          /\ UNCHANGED inflight
     ELSE /\ last' = Call("handleSSOCallback", "", location, Stored, None,
                          CallbackNoToken(variant, location), "none")
          /\ UNCHANGED <<location, sessionStorage, localStorage, inflight>>
  /\ UNCHANGED <<variant, roles, sso, page, now>>

\* responses arrive in any order; exchanges of the same code are
\* interchangeable, so the oldest one of each code stands for them
Oldest(q) == {i \in 1..Len(q) : \A k \in 1..(i - 1) : q[k] # q[i]}

\* login(code) resumes with the response of the fetch, and handleSSOCallback
\* after it (src/auth.js)
ExchangeComplete ==
  /\ page = "app"
  /\ variant = Backend
  /\ \E i \in Oldest(inflight), r \in Responses :
       /\ inflight' = SubSeq(inflight, 1, i - 1) \o SubSeq(inflight, i + 1, Len(inflight))
       /\ IF r.status = "ok" /\ Truthy(DataToken(r.data))
          THEN /\ sessionStorage' = setItem(sessionStorage, TOKEN_KEY(variant), DataToken(r.data))
               /\ location' = replaceState(location)
               /\ last' = Call("exchange", "", location, Stored, DataToken(r.data),
                               RData(r.data), "replaceState")
          ELSE /\ last' = Call("exchange", "", location, Stored, None,
                               RThrow("throw_login", inflight[i]), "none")
               /\ UNCHANGED <<location, sessionStorage>>
  /\ UNCHANGED <<variant, roles, sso, page, localStorage, now>>

\* the "Set Test Token" button of the test page: store the token durably, reload
SetTestToken ==
  /\ page = "app"
  /\ variant = TestTok
  /\ \E t \in TestTokens : localStorage' = t
  /\ inflight' = <<>>
  /\ last' = Loaded
  /\ UNCHANGED <<variant, roles, sso, page, location, sessionStorage, now>>

Next ==
  \/ Tick
  \/ InitiateLogin
  \/ Return
  \/ \E r \in BOOLEAN : Logout(r)
  \/ GetToken
  \/ IsAuthenticated
  \/ GetUserInfo
  \/ HandleSSOCallback
  \/ ExchangeComplete
  \/ SetTestToken

Spec == Init /\ [][Next]_vars

\* ------------------------------------- the role predicates on their own
\* the page of part_000 on some hostname, with the memberOf claim of some
\* user, before any role check
InitRoles ==
  /\ variant = Sample
  /\ page = "app"
  /\ location = CleanUrl
  /\ sessionStorage = [k \in StorageKeys |-> None]
  /\ localStorage = None
  /\ now = 0
  /\ inflight = <<>>
  /\ last = Loaded
  /\ sso = NoLogin
  /\ roles \in {RoleChecks(h, m, NotCalled, NotCalled, NotCalled) : h \in Hostnames, m \in MemberOfs}

\* the role checks of the rendered page: isAdmin(user?.memberOf), then
\* isDeveloper(user?.memberOf), then isProjectMember(user?.memberOf); a
\* TypeError in the first one ends the render. A later render of the same
\* page makes the same calls and gets the same results: only the first one
\* changes the state
RenderRoleChecks ==
  /\ roles.isAdmin = NotCalled
  /\ LET isAnAdmin == isAdmin(roles.memberOf, roles.hostname)
     IN  roles' = IF isAnAdmin.kind # "bool"
                  THEN [roles EXCEPT !.isAdmin = isAnAdmin]
                  ELSE [roles EXCEPT
                          !.isAdmin = isAnAdmin,
                          !.isDeveloper = isDeveloper(roles.memberOf, roles.hostname),
                          !.isProjectMember =
                            isProjectMember(roles.memberOf, roles.hostname)]
  /\ UNCHANGED <<variant, page, location, sessionStorage, localStorage, now, inflight, last,
                 sso>>

NextRoles == RenderRoleChecks

SpecRoles == InitRoles /\ [][NextRoles]_vars

\* --------------------------------------------- initiateLogin on its own
\* the application page of some build, about to call initiateLogin with
\* some argument
InitLogin ==
  /\ variant \in Variants
  /\ page = "app"
  /\ location = CleanUrl
  /\ sessionStorage = [k \in StorageKeys |-> None]
  /\ localStorage = None
  /\ now = 0
  /\ inflight = <<>>
  /\ last = Loaded
  /\ roles = NoRoles
  /\ sso \in {LoginCall(b, r, c, <<>>, <<>>) :
                b \in Builders, r \in RedirectUris \cup {<<>>}, c \in CurrentUrls}

\* initiateLogin(redirectUri): window.location.href = getSSOUrl(finalRedirectUri)
InitiateLoginTo ==
  /\ page = "app"
  /\ page' = "idp_login"
  /\ location' = CleanUrl
  /\ inflight' = <<>>
  /\ last' = Call("initiateLogin", "", CleanUrl, None, None, R0, "assign")
  /\ LET final == finalRedirectUri(variant, sso.redirectUri, sso.currentUrl)
     IN  sso' = [sso EXCEPT !.finalRedirectUri = final,
                            !.href = getSSOUrl(sso.builder, final)]
  /\ UNCHANGED <<variant, roles, sessionStorage, localStorage, now>>

NextLogin == InitiateLoginTo

SpecLogin == InitLogin /\ [][NextLogin]_vars

\* ------------------------------------- the src/auth.js build on its own
InitBackend ==
  /\ variant = Backend
  /\ Init

NextBackend ==
  \/ Tick
  \/ InitiateLogin
  \/ Return
  \/ \E r \in BOOLEAN : Logout(r)
  \/ GetToken
  \/ IsAuthenticated
  \/ GetUserInfo
  \/ HandleSSOCallback
  \/ ExchangeComplete

SpecBackend == InitBackend /\ [][NextBackend]_vars

\* ================================================================ claims
\* the expiry instant of the claims lies before t (milliseconds)
PastExpiry(c, t) == c.hasExp /\ c.exp * MsPerSec < t
\* the expiry instant of the claims lies after t, or there is none
FutureOrNoExp(c, t) == ~c.hasExp \/ c.exp * MsPerSec > t
\* the Token Store holds a token that decodes and is not expired
HoldsValidToken ==
  Truthy(Stored) /\ jwtDecode(Stored).ok /\ ~PastExpiry(jwtDecode(Stored), now)
CallbackOps == {"handleSSOCallback", "exchange"}

\* C1: in every reachable state isAuthenticated() returns true if and only if
\* the Token Store holds a token that decodes and is not expired, and the
\* store never holds more than one token.
C1_AuthIffValidStoredToken ==
  page = "app" =>
    /\ IsAuthValue(variant, sessionStorage, location, now) <=> HoldsValidToken
    /\ Cardinality({k \in StorageKeys : sessionStorage[k] # None}) <= 1

\* C2: isAuthenticated() called immediately after logout() returns false,
\* whatever token was stored and whatever the current URL is.
C2_FalseAfterLogout ==
  (last.op = "isAuthenticated" /\ last.prev = "logout") => ~last.res.b

\* C3: immediately after a well-formed token that expires in the future (or
\* never) was saved, isAuthenticated() returns true and leaves the stored
\* token unchanged.
C3_TrueAfterSave ==
  [][(/\ IsAuthenticated
      /\ Truthy(last.tok)
      /\ Stored = last.tok
      /\ jwtDecode(last.tok).ok
      /\ FutureOrNoExp(jwtDecode(last.tok), now))
     => (last'.res = RBool(TRUE) /\ sessionStorage' = sessionStorage)]_vars
C3_Witness ==
  /\ last.op = "isAuthenticated"
  /\ last.prev = "save"
  /\ last.res.b
  /\ last.had = Stored
  /\ jwtDecode(Stored).ok
  /\ jwtDecode(Stored).hasExp

\* C4: when the stored token decodes and its exp * 1000 is earlier than the
\* current time, isAuthenticated() returns false and the store is empty
\* afterwards.
C4_ExpiredIsCleared ==
  [][(/\ IsAuthenticated
      /\ Truthy(Stored)
      /\ jwtDecode(Stored).ok
      /\ PastExpiry(jwtDecode(Stored), now))
     => (last'.res = RBool(FALSE) /\ sessionStorage'[TOKEN_KEY(variant)] = None)]_vars

\* C5: when the stored token cannot be decoded, isAuthenticated() returns
\* false (it does not throw) and the store is empty afterwards.
C5_UndecodableIsCleared ==
  (last.op = "isAuthenticated" /\ Truthy(last.had) /\ ~jwtDecode(last.had).ok)
    => (last.res = RBool(FALSE) /\ Stored = None)
C5_Witness ==
  /\ last.op = "isAuthenticated"
  /\ last.had = "tBad"
  /\ last.res = RBool(FALSE)
  /\ Stored = None

\* the URL carries a token or a code
HasTokenOrCode(u) ==
  \E f \in UrlFields \ {"q_error"} : u[f] # None

\* C6: on a URL with an error parameter handleSSOCallback throws the
\* authentication error naming that error code, whatever token or code
\* parameters are present too, and writes neither the store nor the URL.
C6_ErrorFirst ==
  [][(HandleSSOCallback /\ location.q_error # None)
     => (/\ last'.res = RThrow("throw_sso", location.q_error)
         /\ UNCHANGED <<sessionStorage, localStorage, location, inflight>>)]_vars
C6_Witness ==
  /\ last.op = "handleSSOCallback"
  /\ last.res.kind = "throw_sso"
  /\ last.res.code = "access_denied"
  /\ location.q_error = "access_denied"
  /\ HasTokenOrCode(location)

\* the directly embedded tokens of a URL, and the first of them in the order
\* fragment access_token, fragment id_token, query access_token, query
\* id_token, query token
EmbeddedFields == <<"h_access_token", "h_id_token", "q_access_token", "q_id_token",
                    "q_token">>
NumEmbedded(u) == Cardinality({i \in 1..Len(EmbeddedFields) : u[EmbeddedFields[i]] # None})
FirstEmbedded(u) ==
  LET present == {i \in 1..Len(EmbeddedFields) : u[EmbeddedFields[i]] # None}
  IN IF present = {} THEN None
     ELSE u[EmbeddedFields[CHOOSE i \in present : \A j \in present : i <= j]]

\* C7: when the callback URL carries several directly embedded tokens, the
\* token handleSSOCallback persists is the first present in the order fragment
\* access_token, fragment id_token, query access_token, query id_token, query
\* token.
C7_EmbeddedOrder ==
  (/\ last.op = "handleSSOCallback"
   /\ last.pre.q_error = None
   /\ NumEmbedded(last.pre) >= 2)
    => Stored = FirstEmbedded(last.pre)

\* C8: when the callback URL has both a fragment access_token and a query
\* code, handleSSOCallback persists the fragment access_token and performs no
\* code exchange.
C8_FragmentBeatsCode ==
  (/\ last.op = "handleSSOCallback"
   /\ last.pre.q_error = None
   /\ last.pre.h_access_token # None
   /\ last.pre.q_code # None)
    => (Stored = last.pre.h_access_token /\ last.res.kind # "pending" /\ inflight = <<>>)

\* C9: whenever handleSSOCallback obtains a token (from the fragment, the
\* query or the code exchange), on completion the store holds exactly that
\* token and the URL has been replaced in history, without a navigation, by
\* one with no parameters in its query or fragment.
C9_PersistAndStrip ==
  (last.op \in CallbackOps /\ Truthy(last.tok))
    => /\ Stored = last.tok
       /\ Cardinality({k \in StorageKeys : sessionStorage[k] # None}) = 1
       /\ location = CleanUrl
       /\ last.nav = "replaceState"
       /\ page = "app"
C9_Witness ==
  /\ last.op \in CallbackOps
  /\ Truthy(last.tok)
  /\ last.had # last.tok
  /\ Stored = last.tok
  /\ last.pre # CleanUrl
  /\ location = CleanUrl

\* C10: on success handleSSOCallback returns the claims decoded from the
\* token it has just persisted.
C10_ReturnsDecodedClaims ==
  (last.op \in CallbackOps /\ Truthy(last.tok))
    => (/\ last.res.kind = "claims"
        /\ jwtDecode(Stored).ok
        /\ last.res.claims = jwtDecode(Stored))

\* C11: when the URL has no error, no embedded token and no code,
\* handleSSOCallback returns the nothing-to-do outcome (null), leaves the
\* store and the URL unchanged, and a valid token that was already stored
\* still makes isAuthenticated() true.
C11_NothingToDo ==
  (/\ last.op = "handleSSOCallback"
   /\ last.pre.q_error = None
   /\ last.pre.q_code = None
   /\ NumEmbedded(last.pre) = 0)
    => (/\ last.res = RNull
        /\ Stored = last.had
        /\ location = last.pre
        /\ (HoldsValidToken => IsAuthValue(variant, sessionStorage, location, now)))

\* C12: when the URL carries a code and no embedded token and the exchange
\* fails or yields no usable token, the callback surfaces an explicit failure
\* outcome that carries the original code and differs from the nothing-to-do
\* outcome; the failure is a returned value, not a thrown error.
C12_ExchangeFailureIsTyped ==
  (/\ last.op \in CallbackOps
   /\ last.res.kind # "pending"
   /\ last.pre.q_error = None
   /\ last.pre.q_code # None
   /\ NumEmbedded(last.pre) = 0
   /\ ~Truthy(last.tok))
    => (last.res.kind = "codeinfo" /\ last.res.code = last.pre.q_code)

\* the first non-empty of the response fields token, access_token, jwt
ResponseFields == <<"token", "access_token", "jwt">>
FirstNonEmpty(d) ==
  LET full == {i \in 1..Len(ResponseFields) :
                 d[ResponseFields[i]] # None /\ d[ResponseFields[i]] # ""}
  IN IF full = {} THEN None
     ELSE d[ResponseFields[CHOOSE i \in full : \A j \in full : i <= j]]

\* C13: in the code-exchange path the persisted token is the first non-empty
\* of the response fields token, access_token, jwt in that order; when all
\* three are absent or empty the exchange fails and nothing is persisted.
C13_ResponseFieldOrder ==
  /\ (last.op = "exchange" /\ last.res.kind = "data")
       => (/\ FirstNonEmpty(last.res.data) # None
           /\ last.tok = FirstNonEmpty(last.res.data)
           /\ Stored = FirstNonEmpty(last.res.data))
  /\ (last.op = "exchange" /\ last.res.kind # "data")
       => (last.res.kind = "throw_login" /\ last.tok = None /\ Stored = last.had)
C13_Witness ==
  /\ last.op = "exchange"
  /\ last.res.kind = "data"
  /\ last.res.data.token = ""
  /\ last.res.data.access_token = "tBob"
  /\ last.res.data.jwt = "tZero"
  /\ Stored = "tBob"

C15_UserInfoIffAuthenticated ==
  [][GetUserInfo
     => (/\ last'.res.kind \in {"claims", "null", "empty"}
         /\ (last'.res.kind = "claims") <=> HoldsValidToken)]_vars

\* C16: logout(redirectToIdP) always leaves the Token Store empty, and it
\* navigates to the logout endpoint if and only if redirectToIdP is true.
C16_LogoutClearsAndRedirects ==
  [][\A r \in BOOLEAN :
       Logout(r) => (/\ sessionStorage'[TOKEN_KEY(variant)] = None
                     /\ (page' = "idp_logout") <=> r)]_vars

\* C17: a stored token that decodes and has no exp is never treated as
\* expired: isAuthenticated() returns true at every time and leaves the store
\* unchanged.
C17_NoExpNeverExpires ==
  (/\ last.op = "isAuthenticated"
   /\ Truthy(last.had)
   /\ jwtDecode(last.had).ok
   /\ ~jwtDecode(last.had).hasExp)
  => (last.res = RBool(TRUE) /\ Stored = last.had)
C17_Witness ==
  /\ last.op = "isAuthenticated"
  /\ last.had = "tBob"
  /\ Stored = "tBob"
  /\ last.res = RBool(TRUE)
  /\ now = MaxSeconds * MsPerSec

\* C18: the token lives only in the tab-scoped store under the configured
\* key: nothing is written to durable storage, and after logout() no storage
\* holds a token a later callback could restore the session from.
C18_NoDurableToken ==
  /\ localStorage = None
  /\ \A k \in StorageKeys \ {TOKEN_KEY(variant)} : sessionStorage[k] = None
  /\ (last.op = "logout" => \A k \in StorageKeys : sessionStorage[k] = None)

\* C19: for every memberOf and every hostname, isAdmin(memberOf) true implies
\* isDeveloper(memberOf) true, and isDeveloper(memberOf) true implies
\* isProjectMember(memberOf) true
C19_TierImplication ==
  /\ roles.isAdmin = Returns(TRUE) => roles.isDeveloper = Returns(TRUE)
  /\ roles.isDeveloper = Returns(TRUE) => roles.isProjectMember = Returns(TRUE)
\* an admin of the amea region who is in no developer or project group, on
\* an amea host, after all three checks
C19_Witness ==
  /\ roles.hostname = <<"x", "amea">>
  /\ roles.memberOf = MList(<<Str("mdz-diat-admin-amea-grp")>>)
  /\ roles.isAdmin = Returns(TRUE)
  /\ roles.isDeveloper = Returns(TRUE)
  /\ roles.isProjectMember = Returns(TRUE)

\* C20: on hostname localhost, isAdmin, isDeveloper and isProjectMember all
\* return true for every memberOf value, an empty list and an absent value
\* included
C20_LocalhostGrantsAll ==
  (roles.hostname = Str("localhost") /\ roles.isAdmin # NotCalled)
    => /\ roles.isAdmin = Returns(TRUE)
       /\ roles.isDeveloper = Returns(TRUE)
       /\ roles.isProjectMember = Returns(TRUE)
\* the three checks made on localhost for a user without memberOf
C20_Witness ==
  /\ roles.hostname = Str("localhost")
  /\ roles.memberOf = MAbsent
  /\ roles.isAdmin = Returns(TRUE)
  /\ roles.isDeveloper = Returns(TRUE)
  /\ roles.isProjectMember = Returns(TRUE)

\* the region a non-localhost hostname selects: the first of global, amea,
\* meu it contains
RegionOrder == <<"global", "amea", "meu">>
HostRegions(h) == {i \in 1..Len(RegionOrder) : StringIndexOf(h, Str(RegionOrder[i])) > -1}
SelectedRegion(h) == IF HostRegions(h) = {} THEN None ELSE RegionOrder[Least(HostRegions(h))]
\* the group names of a tier in a region
RegionTable(tier, region) ==
  CASE tier = "admin" /\ region = "global"
         -> {"mdz-diat-admin-glbl-grp", "mdz-diat-admin-amer-grp"}
    [] tier = "admin" /\ region = "amea" -> {"mdz-diat-admin-amea-grp"}
    [] tier = "admin" /\ region = "meu"  -> {"mdz-diat-admin-meu-grp"}
    [] tier = "dev" /\ region = "global"
         -> {"mdz-diat-dev-glbl-grp", "mdz-diat-dev-amer-grp"}
    [] tier = "dev" /\ region = "amea"   -> {"mdz-diat-dev-amea-grp"}
    [] tier = "dev" /\ region = "meu"    -> {"mdz-diat-dev-meu-grp"}
    [] tier = "prj" /\ region = "global"
         -> {"mdz-diat-prj-glbl-grp", "mdz-diat-prj-amer-grp"}
    [] tier = "prj" /\ region = "amea"   -> {"mdz-diat-prj-amea-grp"}
    [] tier = "prj" /\ region = "meu"    -> {"mdz-diat-prj-meu-grp"}
    [] OTHER -> {}
\* the elements of memberOf: those of the sequence, or the single string
Elements(m) ==
  CASE m.kind = "list"   -> {m.items[i] : i \in 1..Len(m.items)}
    [] m.kind = "string" -> {m.str}
    [] OTHER             -> {}
ExactMember(m, tier, h) ==
  \E g \in RegionTable(tier, SelectedRegion(h)) : Str(g) \in Elements(m)

\* C21: off localhost, a tier predicate's own group check is true only when
\* a group name of the selected region's table is exactly equal to an
\* element of memberOf (a sequence's element, or the single string itself);
\* a substring match does not grant the tier
C21_ExactMatchOnly ==
  roles.hostname # Str("localhost")
    => /\ roles.isAdmin = Returns(TRUE)
            => ExactMember(roles.memberOf, "admin", roles.hostname)
       /\ (roles.isAdmin = Returns(FALSE) /\ roles.isDeveloper = Returns(TRUE))
            => ExactMember(roles.memberOf, "dev", roles.hostname)
       /\ (roles.isDeveloper = Returns(FALSE) /\ roles.isProjectMember = Returns(TRUE))
            => ExactMember(roles.memberOf, "prj", roles.hostname)

\* C22: on a hostname that is not localhost and contains none of global,
\* amea, meu, isAdmin, isDeveloper and isProjectMember all return false for
\* every memberOf value
C22_UnknownHostDenied ==
  (/\ roles.isAdmin # NotCalled
   /\ roles.hostname # Str("localhost")
   /\ SelectedRegion(roles.hostname) = None)
    => /\ roles.isAdmin = Returns(FALSE)
       /\ roles.isDeveloper = Returns(FALSE)
       /\ roles.isProjectMember = Returns(FALSE)
\* a member of the global admin group on a host of no region, after the
\* three checks
C22_Witness ==
  /\ roles.hostname = <<"x", "localhost">>
  /\ roles.memberOf = MList(<<Str("mdz-diat-admin-glbl-grp")>>)
  /\ roles.isAdmin = Returns(FALSE)
  /\ roles.isDeveloper = Returns(FALSE)
  /\ roles.isProjectMember = Returns(FALSE)

\* the default redirect URL the configuration of a build provides, <<>> when
\* it provides none
ConfiguredDefault(v, b) ==
  IF v = TestTok THEN SSO_CONFIG_redirectUrl
  ELSE IF b = UtilsParams THEN SSO_REDIRECT_URL
  ELSE <<>>
\* the explicit argument, else the configured default, else the page URI
EffectiveRedirectUri(v, b, r, c) ==
  IF r # <<>> THEN r
  ELSE IF ConfiguredDefault(v, b) # <<>> THEN ConfiguredDefault(v, b)
  ELSE c
LoginCalled == sso.href # <<>>

\* C23: initiateLogin chooses the explicit argument when given, else the
\* configured default redirect URL, else the current page URI, and navigates
\* to the URL builder's output for that URI
C23_RedirectPrecedence ==
  LoginCalled
    => LET uri == EffectiveRedirectUri(variant, sso.builder, sso.redirectUri,
                                       sso.currentUrl)
       IN  /\ sso.finalRedirectUri = uri
           /\ sso.href = getSSOUrl(sso.builder, uri)
           /\ page = "idp_login"

\* the authorization endpoint and client of a build of the URL builder
EndpointOf(b) == IF b = UtilsParams THEN SSO_AUTH_URL ELSE authorizationEndpoint
ClientOf(b) == IF b = UtilsParams THEN SSO_CLIENT_ID ELSE clientId
\* endpoint?response_type=..&client_id=..&redirect_uri=<value>&scope=<scope>
\* with every value verbatim
VerbatimUrl(b, value) ==
  <<EndpointOf(b), "?", "response_type", "=", "code", "&", "client_id", "=", ClientOf(b),
    "&", "redirect_uri", "=">> \o value \o <<"&", "scope", "=">> \o scope

\* C24: for every redirect URI the URL builder returns the authorization
\* endpoint followed by response_type, client_id, redirect_uri, scope in
\* that order with the values verbatim (the redirect URI with or without
\* the trailing slash), and the same inputs give the same string
C24_OrderedVerbatim ==
  LoginCalled
    => /\ sso.href \in {VerbatimUrl(sso.builder, sso.finalRedirectUri),
                        VerbatimUrl(sso.builder, sso.finalRedirectUri \o <<"/">>)}
       /\ sso.href = getSSOUrl(sso.builder, sso.finalRedirectUri)

\* the position of an atom in a string
PositionOf(s, a) == Least({i \in 1..Len(s) : s[i] = a})
\* the value of the redirect_uri parameter of a built URL
RedirectUriParam(h) ==
  SubSeq(h, PositionOf(h, "redirect_uri") + 2, PositionOf(h, "scope") - 2)
\* the hostname of a URI: what lies between the scheme and the first "/"
HostnameOf(u) ==
  LET slashes == {i \in 2..Len(u) : u[i] = "/"}
  IN  IF slashes = {} THEN SubSeq(u, 2, Len(u)) ELSE SubSeq(u, 2, Least(slashes) - 1)
NeedsSlash(u) ==
  Includes(HostnameOf(u), Str("global")) /\ ~Includes(HostnameOf(u), Str("predev"))

\* C25: the URL builder appends exactly one "/" to the supplied redirect URI
\* when the hostname of the redirect target contains global and not predev,
\* and appends nothing in every other case (the value compared before or
\* after query encoding)
C25_TrailingSlash ==
  LoginCalled
    => LET value == IF NeedsSlash(sso.finalRedirectUri)
                    THEN sso.finalRedirectUri \o <<"/">>
                    ELSE sso.finalRedirectUri
       IN  RedirectUriParam(sso.href) \in {value, Encode(value)}

\* the outcomes that are failures of a call
Failed(res) == res.kind \in {"throw_sso", "throw_login", "codeinfo"}

\* a step of one of the four operations repeats what the operation has
\* just done: store and URL stay, a success is not followed by a failure
SecondLogout ==
  (last.op = "logout" /\ \E r \in BOOLEAN : Logout(r))
    => /\ sessionStorage' = sessionStorage
       /\ page' = "app" => location' = location
\* isAuthenticated applied to the state it leaves, at the same instant
SecondIsAuthenticated ==
  IsAuthenticated
    => /\ IsAuthStore(variant, sessionStorage', location', now') = sessionStorage'
       /\ IsAuthValue(variant, sessionStorage', location', now') = last'.res.b
       /\ location' = location
SecondGetUserInfo ==
  (last.op = "getUserInfo" /\ GetUserInfo)
    => /\ sessionStorage' = sessionStorage
       /\ location' = location
       /\ last'.res = last.res
SecondCallback ==
  (last.op \in CallbackOps /\ last.res.kind # "pending" /\ HandleSSOCallback)
    => /\ sessionStorage' = sessionStorage
       /\ location' = location
       /\ ~Failed(last.res) => ~Failed(last'.res)

\* C26: logout, isAuthenticated, getUserInfo and handleSSOCallback are
\* idempotent: a second run directly after the first (no time passing, no
\* change from outside) leaves the token store and the URL as the first run
\* left them, and does not fail where the first succeeded
C26_Idempotent ==
  [][SecondLogout /\ SecondIsAuthenticated /\ SecondGetUserInfo /\ SecondCallback]_vars

\* C27: handleSSOCallback decodes the token it extracted before committing
\* it: a token from the URL or from the exchange that fails to decode is
\* never written to the token store by the callback
C27_DecodeBeforeCommit ==
  (last.op \in CallbackOps /\ Truthy(last.tok) /\ ~jwtDecode(last.tok).ok)
    => Stored # last.tok

\* the step is ExchangeComplete: only it records an exchange and takes one
\* out of the exchanges in flight
ExchangeStep == last'.op = "exchange" /\ Len(inflight') = Len(inflight) - 1

\* an exchange completes while another one is in flight, or directly after
\* another one completed: the two callbacks overlapped
Overlapping == Len(inflight) > 1 \/ last.op = "exchange"

\* C28: when two handleSSOCallback invocations with code exchanges overlap,
\* every exchange that returns a token overwrites the store with it and a
\* failing one leaves the store alone, so the store ends with the token of
\* the exchange that completed last, and it never holds more than one token
C28_LastWriterWins ==
  [][(ExchangeStep /\ Overlapping)
       => /\ last'.res.kind = "data"
               => sessionStorage' = [k \in StorageKeys |->
                                       IF k = TOKEN_KEY(variant) THEN last'.tok ELSE None]
          /\ last'.res.kind # "data" => sessionStorage' = sessionStorage]_vars
\* an exchange has replaced the token in the store while another exchange
\* is still in flight
C28_Witness ==
  /\ last.op = "exchange"
  /\ last.res.kind = "data"
  /\ Len(inflight) = 1
  /\ last.had = "tAlice"
  /\ Stored = "tBob"

\* C29: when logout() runs while a code exchange is in flight, the later
\* successful completion of the exchange still writes its token, and the
\* session is authenticated (for a valid token) although logout was the
\* last operation the user invoked
C29_ExchangeOutlivesLogout ==
  [][(last.op = "logout" /\ ExchangeStep /\ last'.res.kind = "data")
       => /\ Stored' = last'.tok
          /\ Truthy(Stored')
          /\ (jwtDecode(last'.tok).ok /\ ~IsExpired(jwtDecode(last'.tok), now'))
               => IsAuthValue(variant, sessionStorage', location', now')]_vars
\* the store was empty (after logout) when the response arrived, and now
\* holds the token of the response
C29_Witness ==
  /\ last.op = "exchange"
  /\ last.res.kind = "data"
  /\ last.had = None
  /\ Stored = "tBob"
  /\ IsAuthValue(variant, sessionStorage, location, now)

Mentions(m, g) ==
  CASE m.kind = "list"   -> \E i \in 1..Len(m.items) : m.items[i] = Str(g)
    [] m.kind = "string" -> \E i \in 1..Len(m.str) : m.str[i] = g
    [] OTHER             -> FALSE
\* memberOf names a group of one of the tiers in the region
MentionsRegion(m, tiers, region) ==
  \E t \in tiers : \E g \in RegionTable(t, region) : Mentions(m, g)
\* a hostname other than localhost that contains several region names
SeveralRegions(h) == h # Str("localhost") /\ Cardinality(HostRegions(h)) > 1

\* C31: on a hostname other than localhost that contains more than one of
\* global, amea, meu, each tier predicate that returns gives true exactly
\* when memberOf names a group of the first contained region in the order
\* global, amea, meu (of the tier itself or of a tier above it, which the
\* predicate asks first); the groups of the later regions never grant the
\* tier, and a memberOf without indexOf grants nothing
C31_FirstRegionOnly ==
  (roles.isAdmin # NotCalled /\ SeveralRegions(roles.hostname))
    => LET first == SelectedRegion(roles.hostname)
       IN  /\ roles.isAdmin.kind = "bool"
                => roles.isAdmin.b = MentionsRegion(roles.memberOf, {"admin"}, first)
           /\ roles.isDeveloper.kind = "bool"
                => roles.isDeveloper.b
                     = MentionsRegion(roles.memberOf, {"admin", "dev"}, first)
           /\ roles.isProjectMember.kind = "bool"
                => roles.isProjectMember.b
                     = MentionsRegion(roles.memberOf, {"admin", "dev", "prj"}, first)
           /\ roles.memberOf = MOther
                => /\ roles.isAdmin = TypeError
                   /\ roles.isDeveloper = NotCalled
                   /\ roles.isProjectMember = NotCalled
\* a member of the meu admin and project groups on a host that names meu
\* before global, after the three checks: global is consulted, nothing granted
C31_Witness ==
  /\ roles.hostname = <<"meu", "global">>
  /\ roles.memberOf = MList(<<Str("mdz-diat-admin-meu-grp"), Str("mdz-diat-prj-meu-grp")>>)
  /\ roles.isAdmin = Returns(FALSE)
  /\ roles.isDeveloper = Returns(FALSE)
  /\ roles.isProjectMember = Returns(FALSE)

====
